---- MODULE Spec2Model ----
(***************************************************************************)
(* Brick selection for fault injection in glustolibs/gluster/brick_libs.py *)
(*                                                                         *)
(* The model follows one call of select_volume_bricks_to_bring_offline on  *)
(* a non-tiered volume: the dispatch on the volume type, the computation   *)
(* of the offline limit from the client quorum info, and the per-subvol    *)
(* loop (shuffle, randint, sample, extend) of the two selectors            *)
(*   get_bricks_to_bring_offline_from_replicated_volume                    *)
(*   get_bricks_to_bring_offline_from_disperse_volume.                     *)
(*                                                                         *)
(* Python values that may be None are records [isNone, val]; Python        *)
(* strings are sequences of one-character strings, so that the substring   *)
(* test `'fixed' in quorum_type` is computed and not assumed.  A call that *)
(* ends with an uncaught exception ends in pc = "raised".                  *)
(*                                                                         *)
(* SpecSelect follows select_bricks_to_bring_offline from its entry, for   *)
(* tiered and non-tiered volumes: the selectors above run as its callees,  *)
(* once per partition (volume, hot tier, cold tier).  SpecPoller follows   *)
(* wait_for_bricks_to_be_online and SpecStatus applies are_bricks_online   *)
(* and are_bricks_offline to one status snapshot.  SpecPollerFair is       *)
(* SpecPoller with the poller always taking its next step.  SpecLists      *)
(* applies get_online_bricks_list and get_offline_bricks_list to one       *)
(* snapshot, SpecDetach follows wait_for_detach_tier_to_complete of        *)
(* tiering_ops.py, SpecOffline and SpecOnline follow one call of           *)
(* bring_bricks_offline and of bring_bricks_online, and SpecConcurrent has *)
(* two callers that each select bricks of one volume and bring them        *)
(* offline.                                                                *)
(***************************************************************************)
EXTENDS Integers, Sequences, FiniteSets, TLC

\* ---------------------------------------------------------------- bounds

\* Largest number of subvolumes (groups) of a volume.
MaxSubvols == 2

\* Largest number of bricks in one subvolume.
MaxSubvolSize == 3

\* Largest number of bricks of a volume.
MaxBricks == 6

\* Largest replica count, redundancy count and quorum count.
MaxCount == 3

\* Largest number of bricks of a tiered volume, both tiers together.
MaxTierBricks == 4

\* Largest number of bricks of a volume whose status is polled.
MaxPollBricks == 3

\* Largest number of bricks of a volume that two callers inject faults into.
MaxSharedBricks == 2

\* Largest timeout, in seconds, given to wait_for_bricks_to_be_online.
MaxTimeout == 25

\* `time.sleep(10)` and `counter = counter + 10`, in seconds.
PollInterval == 10

\* `time.sleep(10)` and `count = count + 10` of the detach wait, in seconds.
DetachPollInterval == 10

\* ------------------------------------------------------- Python values

None == [isNone |-> TRUE, val |-> <<>>]

Some(v) == [isNone |-> FALSE, val |-> v]

S_fixed == <<"f", "i", "x", "e", "d">>

S_auto == <<"a", "u", "t", "o">>

S_none == <<"n", "o", "n", "e">>

S_unfixed == <<"u", "n", "f", "i", "x", "e", "d">>

S_all == <<"a", "l", "l">>

\* The quorum type strings the model feeds to the selector.
QuorumTypeStrings == {S_fixed, S_auto, S_none, S_unfixed, S_all}

\* Python `needle in hay` for two strings: substring containment.
Contains(needle, hay) ==
    \E i \in 0..(Len(hay) - Len(needle)) :
        SubSeq(hay, i + 1, i + Len(needle)) = needle

\* a / b on two ints: floor division under Python 2, true division (kept as
\* a fraction) under Python 3.  The module has no `from __future__ import
\* division`, so the interpreter decides.
PyDivide(a, b, true_division) ==
    IF true_division THEN [num |-> a, den |-> b]
    ELSE [num |-> a \div b, den |-> 1]

\* math.ceil of a non-negative fraction.
ceil(q) == (q.num + q.den - 1) \div q.den

\* random.randint(a, b): the values it can return; empty when b < a, where
\* randint raises ValueError.
randint_wide(a, b) == a..(b + 1)

randint_from_zero(a, b) == 0..b

randint(a, b) == a..b

\* A shuffle that loses the last element.
shuffle_losing_last(x) == {[i \in 1..(Len(x) - 1) |-> x[i]]}

\* random.shuffle(x): the orders x can be left in.
shuffle(x) ==
    {[i \in 1..Len(x) |-> x[p[i]]] :
        p \in {f \in [1..Len(x) -> 1..Len(x)] :
                  \A i, j \in 1..Len(x) : i # j => f[i] # f[j]}}

\* random.sample(population, k) for 0 <= k <= len(population): k elements at
\* distinct positions, in any order.
sample_with_replacement(population, k) ==
    {[i \in 1..k |-> population[p[i]]] : p \in [1..k -> 1..Len(population)]}

sample(population, k) ==
    {[i \in 1..k |-> population[p[i]]] :
        p \in {f \in [1..k -> 1..Len(population)] :
                  \A i, j \in 1..k : i # j => f[i] # f[j]}}

\* The elements of a list.
Range(s) == {s[i] : i \in DOMAIN s}

\* ------------------------------------------------------------- state

VARIABLES
    volume_type,                      \* volume_type_info[...]['typeStr']
    replica_count,                    \* volume_type_info[...]['replicaCount']
    redundancy_count,                 \* volume_type_info[...]['redundancyCount']
    quorum_info,                      \* get_client_quorum_info()['volume_quorum_info']
    subvols_list,                     \* get_subvols()['volume_subvols'], shuffled in place
    subvols_at_call,                  \* subvols_list as the selector was called with it
    pc,                               \* position of the call
    offline_bricks_limit,             \* <<>> while unbound, <<n>> once assigned
    idx,                              \* next subvol of `for subvol in subvols_list`
    random_counts,                    \* the random_count drawn for each subvol so far
    list_of_bricks_to_bring_offline,  \* the selector's accumulator
    volume_bricks_to_bring_offline,   \* what select_volume_bricks_to_bring_offline returns
    exception,                        \* the uncaught exception when pc = "raised"
    \* select_bricks_to_bring_offline and the tier functions
    is_tiered,                        \* what is_tiered_volume() answers
    hot_tier,                         \* type info, quorum info and subvols of the hot tier
    cold_tier,                        \* type info, quorum info and subvols of the cold tier
    partition,                        \* whose selection runs: "volume", "hot_tier", "cold_tier"
    volinfo,                          \* the last get_volume_info(): "unset", "None", "info"
    hot_tier_bricks_to_bring_offline, \* what select_hot_tier_bricks_to_bring_offline returns
    cold_tier_bricks_to_bring_offline, \* what select_cold_tier_bricks_to_bring_offline returns
    bricks_to_bring_offline_dict,     \* the dict of select_bricks_to_bring_offline
    \* wait_for_bricks_to_be_online, are_bricks_online, are_bricks_offline
    all_bricks,                       \* get_all_bricks(): None or a list of bricks
    bricks_list,                      \* the bricks_list argument of are_bricks_on/offline
    volume_status,                    \* get_volume_status() now: None or brick -> status
    timeout,                          \* the timeout argument
    counter,                          \* seconds slept so far
    flag,                             \* 1 once a poll saw every brick online
    status,                           \* the last are_bricks_online(): "unset", "None", "True", "False"
    observed,                         \* every are_bricks_online() result so far, in order
    offline_status,                   \* the last are_bricks_offline()
    wpc,                              \* position of the wait / status call
    wait_result,                      \* what wait_for_bricks_to_be_online returned
    \* get_online_bricks_list, get_offline_bricks_list
    online_list_result,               \* what get_online_bricks_list returned
    offline_list_result,              \* what get_offline_bricks_list returned
    \* wait_for_detach_tier_to_complete (it shares timeout and flag)
    count,                            \* seconds slept so far
    status_info,                      \* the last get_detach_tier_status(): "None" or its statusStr
    detach_observed,                  \* every get_detach_tier_status() result so far
    dpc,                              \* position of the call
    detach_result,                    \* what wait_for_detach_tier_to_complete returned
    \* bring_bricks_offline, bring_bricks_online
    brick_mux,                        \* what is_brick_mux_enabled() answers
    down,                             \* the bricks whose process is not running now
    calls,                            \* per caller: the bring_bricks_* call it runs
    caller                            \* the caller whose selection runs

selectorVars == <<volume_type, replica_count, redundancy_count, quorum_info,
                  subvols_list, subvols_at_call, pc, offline_bricks_limit, idx,
                  random_counts,
                  list_of_bricks_to_bring_offline,
                  volume_bricks_to_bring_offline, exception>>

selectorVars_but_pc ==
    <<volume_type, replica_count, redundancy_count, quorum_info,
      subvols_list, subvols_at_call, offline_bricks_limit, idx,
      random_counts, list_of_bricks_to_bring_offline,
      volume_bricks_to_bring_offline,
      exception>>

tierResults == <<hot_tier_bricks_to_bring_offline,
                 cold_tier_bricks_to_bring_offline>>

selectVars == <<is_tiered, hot_tier, cold_tier, partition, volinfo,
                bricks_to_bring_offline_dict>>

pollerVars == <<all_bricks, bricks_list, volume_status, timeout, counter,
                flag, status, observed, offline_status, wpc, wait_result>>

listVars == <<online_list_result, offline_list_result>>

detachVars == <<count, status_info, detach_observed, dpc, detach_result>>

actuatorVars == <<brick_mux, down, calls, caller>>

moreVars == <<listVars, detachVars, actuatorVars>>

vars == <<selectorVars, tierResults, selectVars, pollerVars, moreVars>>

inputs == <<volume_type, replica_count, redundancy_count, quorum_info,
            subvols_at_call>>

ReplicatedTypes == {"Replicate", "Distributed-Replicate"}

DisperseTypes == {"Disperse", "Distributed-Disperse"}

VolumeTypes == {"Distribute"} \cup ReplicatedTypes \cup DisperseTypes

\* A brick "node:path" is named by its subvolume and its place in it.
Brick(g, k) == <<g, k>>

\* n disjoint subvols of s bricks each.
Subvols(n, s) == [g \in 1..n |-> [k \in 1..s |-> Brick(g, k)]]

\* Quorum info of a volume without client quorum.
NoQuorum ==
    [has_keys |-> TRUE, is_quorum_applicable |-> FALSE,
     quorum_type |-> None, quorum_count |-> None]

QuorumInfos ==
    {[has_keys |-> FALSE, is_quorum_applicable |-> FALSE,
      quorum_type |-> None, quorum_count |-> None]}
    \cup
    [has_keys : {TRUE}, is_quorum_applicable : BOOLEAN,
     quorum_type : {None} \cup {Some(s) : s \in QuorumTypeStrings},
     quorum_count : {None} \cup {Some(c) : c \in 1..MaxCount}]

\* A tier of a tiered volume as get_volume_type_info, get_client_quorum_info
\* and get_subvols report it; NoTier for a volume without tiers.
NoTier ==
    [type |-> "None", replica_count |-> 0, redundancy_count |-> 0,
     quorum_info |-> NoQuorum, subvols |-> <<>>]

\* The dict select_bricks_to_bring_offline starts from (lines 514-519).
DefaultBricksToBringOffline ==
    [is_tier |-> FALSE, hot_tier_bricks |-> <<>>, cold_tier_bricks |-> <<>>,
     volume_bricks |-> <<>>]

\* The volume as the collaborators report it.  A plain type has at most one
\* subvol and a Distributed- type at least two; a replicated volume has a
\* replica count of at least 2; counts that do not apply to the type have
\* the value gluster reports for them.
VolumeInputs ==
    /\ volume_type \in VolumeTypes
    /\ \E n \in 0..MaxSubvols, s \in 1..MaxSubvolSize :
          /\ volume_type \in {"Replicate", "Disperse"} => n <= 1
          /\ volume_type \in {"Distributed-Replicate", "Distributed-Disperse"}
                => n >= 2
          /\ volume_type = "Distribute" => s = 1
          /\ n * s <= MaxBricks
          /\ subvols_list = Subvols(n, s)
          /\ subvols_at_call = Subvols(n, s)
    /\ IF volume_type \in ReplicatedTypes
       THEN /\ replica_count \in 2..MaxCount
            /\ quorum_info \in QuorumInfos
       ELSE IF volume_type = "Distribute"
       THEN /\ replica_count = 1
            /\ quorum_info \in QuorumInfos
       ELSE /\ replica_count = 1
            /\ quorum_info = NoQuorum
    /\ IF volume_type \in DisperseTypes
       THEN redundancy_count \in 0..MaxCount
       ELSE redundancy_count = 0

\* The locals of a selector call that has not started.
SelectorLocalsInit ==
    /\ offline_bricks_limit = <<>>
    /\ idx = 1
    /\ random_counts = <<>>
    /\ list_of_bricks_to_bring_offline = <<>>
    /\ volume_bricks_to_bring_offline = <<>>
    /\ exception = ""

\* No select_bricks_to_bring_offline call runs: the volume is not tiered.
SelectIdle ==
    /\ is_tiered = FALSE
    /\ hot_tier = NoTier
    /\ cold_tier = NoTier
    /\ partition = "volume"
    /\ volinfo = "unset"
    /\ hot_tier_bricks_to_bring_offline = <<>>
    /\ cold_tier_bricks_to_bring_offline = <<>>
    /\ bricks_to_bring_offline_dict = DefaultBricksToBringOffline

\* No wait or status call runs.
PollerIdle ==
    /\ all_bricks = None
    /\ bricks_list = <<>>
    /\ volume_status = None
    /\ timeout = 0
    /\ counter = 0
    /\ flag = 0
    /\ status = "unset"
    /\ observed = <<>>
    /\ offline_status = "unset"
    /\ wpc = "idle"
    /\ wait_result = "unset"

\* A caller that runs no bring_bricks_offline or bring_bricks_online call.
NoCall ==
    [op |-> "none", pc |-> "idle", bricks_list |-> <<>>, methods |-> <<>>,
     i |-> 1, rc |-> TRUE, failed |-> <<>>, issued |-> <<>>,
     result |-> "unset"]

\* The callers of the fault-injection functions.
Callers == {1, 2}

\* No get_online_bricks_list or get_offline_bricks_list call has run.
ListsIdle ==
    /\ online_list_result = [kind |-> "unset", val |-> <<>>]
    /\ offline_list_result = [kind |-> "unset", val |-> <<>>]

\* No wait_for_detach_tier_to_complete call runs.
DetachIdle ==
    /\ count = 0
    /\ status_info = "unset"
    /\ detach_observed = <<>>
    /\ dpc = "idle"
    /\ detach_result = "unset"

\* No bring_bricks_offline or bring_bricks_online call runs.
ActuatorIdle ==
    /\ brick_mux = FALSE
    /\ down = {}
    /\ calls = [c \in Callers |-> NoCall]
    /\ caller = 0

\* No list, detach-wait or bring_bricks_* call runs.
MoreIdle ==
    /\ ListsIdle
    /\ DetachIdle
    /\ ActuatorIdle

\* A call of select_volume_bricks_to_bring_offline on a non-tiered volume.
Init ==
    /\ MoreIdle
    /\ VolumeInputs
    /\ pc = "select_volume"
    /\ SelectorLocalsInit
    /\ SelectIdle
    /\ PollerIdle

\* --------------------------------------------- offline limit (786-815)

ReturnEmpty == [kind |-> "return", limit |-> 0, exc |-> ""]

Raise(e) == [kind |-> "raise", limit |-> 0, exc |-> e]

Limit(n) == [kind |-> "limit", limit |-> n, exc |-> ""]

\* `if is_quorum_applicable:`
quorum_applies_always(qi) == TRUE

quorum_applies(qi) == qi.is_quorum_applicable

\* `if quorum_count is None:` under 'fixed'
count_missing_never(qi) == FALSE

count_missing(qi) == qi.quorum_count.isNone

\* `int(replica_count) - int(quorum_count)`
fixed_limit_off_by_one(rc, qc) == rc - qc + 1

fixed_limit(rc, qc) == rc - qc

\* `ceil(int(replica_count) / 2)`
auto_limit(rc, true_division) == ceil(PyDivide(rc, 2, true_division))

\* `int(redundancy_count)`, the upper end of the draw for a disperse volume
disperse_limit_plus_one(rc) == rc + 1

disperse_limit(rc) == rc

\* The part of get_bricks_to_bring_offline_from_replicated_volume before
\* its loop: what it does with the quorum info.
replicated_offline_limit(rc, qi, true_division) ==
    IF ~qi.has_keys THEN ReturnEmpty                       \* KeyError caught
    ELSE IF ~quorum_applies(qi) THEN ReturnEmpty           \* falls to line 829
    ELSE IF qi.quorum_type.isNone
         THEN Raise("TypeError")                           \* 'fixed' in None
    ELSE IF Contains(S_fixed, qi.quorum_type.val)
         THEN IF count_missing(qi) THEN ReturnEmpty
              ELSE IF qi.quorum_count.isNone
                   THEN Raise("TypeError")                 \* int(None)
                   ELSE Limit(fixed_limit(rc, qi.quorum_count.val))
    ELSE IF Contains(S_auto, qi.quorum_type.val)
         THEN Limit(auto_limit(rc, true_division))
    ELSE IF qi.quorum_type.isNone
         THEN Limit(rc - 1)
    ELSE ReturnEmpty                                       \* Invalid Quorum Type

\* The if/elif chain of select_volume_bricks_to_bring_offline on the volume
\* type (lines 566-596): which selector runs, if any.
select_branch_distribute_replicated(type) ==
    IF type \in ReplicatedTypes \cup {"Distribute"} THEN "replicated"
    ELSE IF type \in DisperseTypes THEN "disperse"
    ELSE "empty"

select_branch(type) ==
    IF type = "Distribute" THEN "empty"
    ELSE IF type \in ReplicatedTypes THEN "replicated"
    ELSE IF type \in DisperseTypes THEN "disperse"
    ELSE "empty"

\* ------------------------------------------------------------ actions

\* select_volume_bricks_to_bring_offline up to the call of a selector.
SelectVolumeBricks ==
    /\ pc = "select_volume"
    /\ IF is_tiered
       THEN pc' = "returned"                               \* line 554
       ELSE pc' = CASE select_branch(volume_type) = "replicated"
                          -> "replicated"
                    [] select_branch(volume_type) = "disperse"
                          -> "disperse_loop"
                    [] OTHER -> "returned"
    /\ UNCHANGED <<inputs, subvols_list, offline_bricks_limit, idx,
                   random_counts, list_of_bricks_to_bring_offline,
                   volume_bricks_to_bring_offline, exception>>
    /\ UNCHANGED <<tierResults, selectVars, pollerVars, moreVars>>

\* get_bricks_to_bring_offline_from_replicated_volume, lines 786-815.
ReplicatedQuorumLimit ==
    /\ pc = "replicated"
    /\ \E true_division \in BOOLEAN :
          LET r == replicated_offline_limit(replica_count, quorum_info,
                                            true_division)
          IN  /\ pc' = CASE r.kind = "return" -> "returned"
                         [] r.kind = "raise" -> "raised"
                         [] OTHER -> "replicated_loop"
              /\ exception' = r.exc
              /\ offline_bricks_limit' =
                    IF r.kind = "limit" THEN <<r.limit>> ELSE <<>>
    /\ UNCHANGED <<inputs, subvols_list, idx, random_counts,
                   list_of_bricks_to_bring_offline,
                   volume_bricks_to_bring_offline>>
    /\ UNCHANGED <<tierResults, selectVars, pollerVars, moreVars>>

\* One pass of the loop body shared by the two selectors: shuffle the
\* subvol in place, draw random_count in [1, limit], sample that many bricks
\* and extend the accumulator.  randint raises ValueError on an empty range
\* and sample raises ValueError when random_count exceeds the subvol.
SelectFromSubvol(limit) ==
    /\ idx <= Len(subvols_list)
    /\ \E shuffled \in shuffle(subvols_list[idx]) :
          /\ subvols_list' = [subvols_list EXCEPT ![idx] = shuffled]
          /\ IF randint(1, limit) = {}
             THEN /\ pc' = "raised"
                  /\ exception' = "ValueError"
                  /\ UNCHANGED <<idx, random_counts,
                                 list_of_bricks_to_bring_offline>>
             ELSE \E random_count \in randint(1, limit) :
                    IF random_count > Len(shuffled) \/ random_count < 0
                    THEN /\ pc' = "raised"
                         /\ exception' = "ValueError"
                         /\ UNCHANGED <<idx, random_counts,
                                        list_of_bricks_to_bring_offline>>
                    ELSE \E bricks_to_bring_offline
                                \in sample(shuffled, random_count) :
                            /\ list_of_bricks_to_bring_offline' =
                                  list_of_bricks_to_bring_offline
                                      \o bricks_to_bring_offline
                            /\ random_counts' =
                                  Append(random_counts, random_count)
                            /\ idx' = idx + 1
                            /\ UNCHANGED <<pc, exception>>
    /\ UNCHANGED <<inputs, offline_bricks_limit,
                   volume_bricks_to_bring_offline>>
    /\ UNCHANGED <<tierResults, selectVars, pollerVars, moreVars>>

\* get_bricks_to_bring_offline_from_replicated_volume, lines 817-827.
ReplicatedSelectFromSubvol ==
    /\ pc = "replicated_loop"
    /\ SelectFromSubvol(offline_bricks_limit[1])

\* get_bricks_to_bring_offline_from_disperse_volume, lines 853-863.
DisperseSelectFromSubvol ==
    /\ pc = "disperse_loop"
    /\ SelectFromSubvol(disperse_limit(redundancy_count))

\* The loop is over: the selector returns its accumulator and its caller
\* (select_volume_, select_hot_tier_ or select_cold_tier_bricks_to_bring_
\* offline) returns it unchanged.
SelectorReturn ==
    /\ pc \in {"replicated_loop", "disperse_loop"}
    /\ idx > Len(subvols_list)
    /\ pc' = "returned"
    /\ volume_bricks_to_bring_offline' =
          IF partition = "volume" THEN list_of_bricks_to_bring_offline
          ELSE volume_bricks_to_bring_offline
    /\ hot_tier_bricks_to_bring_offline' =
          IF partition = "hot_tier" THEN list_of_bricks_to_bring_offline
          ELSE hot_tier_bricks_to_bring_offline
    /\ cold_tier_bricks_to_bring_offline' =
          IF partition = "cold_tier" THEN list_of_bricks_to_bring_offline
          ELSE cold_tier_bricks_to_bring_offline
    /\ UNCHANGED <<inputs, subvols_list, offline_bricks_limit, idx,
                   random_counts, list_of_bricks_to_bring_offline, exception>>
    /\ UNCHANGED <<selectVars, pollerVars, moreVars>>

Next ==
    \/ SelectVolumeBricks
    \/ ReplicatedQuorumLimit
    \/ ReplicatedSelectFromSubvol
    \/ DisperseSelectFromSubvol
    \/ SelectorReturn

Spec == Init /\ [][Next]_vars

\* ------------------------------ select_bricks_to_bring_offline (493-754)

\* n disjoint subvols of s bricks each, numbered from subvol `first`.
TierSubvols(first, n, s) ==
    [g \in 1..n |-> [k \in 1..s |-> Brick(first + g - 1, k)]]

\* The quorum infos the model gives to a tier: not applicable, 'auto',
\* 'fixed' with and without a count, a None type and an unknown type.
TierQuorumInfos ==
    {NoQuorum}
    \cup
    {[has_keys |-> TRUE, is_quorum_applicable |-> TRUE,
      quorum_type |-> t, quorum_count |-> None] :
        t \in {None, Some(S_auto), Some(S_fixed), Some(S_all)}}
    \cup
    {[has_keys |-> TRUE, is_quorum_applicable |-> TRUE,
      quorum_type |-> Some(S_fixed), quorum_count |-> Some(1)]}

\* The tiers of n subvols of s bricks, the first of them subvol `first`.
Tiers(types, first, n, s) ==
    {t \in [type : types,
            replica_count : 1..MaxCount,
            redundancy_count : 0..MaxCount,
            quorum_info : TierQuorumInfos,
            subvols : {TierSubvols(first, n, s)}] :
        /\ t.type \in {"Replicate", "Disperse"} => n = 1
        /\ t.type \in {"Distributed-Replicate", "Distributed-Disperse"}
              => n >= 2
        /\ t.type = "Distribute" => s = 1
        /\ IF t.type \in ReplicatedTypes THEN t.replica_count >= 2
           ELSE t.replica_count = 1
        /\ t.type \notin DisperseTypes => t.redundancy_count = 0
        /\ t.type \in DisperseTypes => t.quorum_info = NoQuorum}

\* A hot tier is Distribute or replicated; a cold tier is of any type.
HotTierTypes == {"Distribute"} \cup ReplicatedTypes

\* A call of select_bricks_to_bring_offline on a tiered or a non-tiered
\* volume.  The selector's parameters are bound when a selector is called.
InitSelect ==
    /\ MoreIdle
    /\ pc = "select_bricks"
    /\ SelectorLocalsInit
    /\ PollerIdle
    /\ partition = "volume"
    /\ volinfo = "unset"
    /\ hot_tier_bricks_to_bring_offline = <<>>
    /\ cold_tier_bricks_to_bring_offline = <<>>
    /\ bricks_to_bring_offline_dict = DefaultBricksToBringOffline
    /\ is_tiered \in BOOLEAN
    /\ IF is_tiered
       THEN /\ \E nh, nc \in 1..MaxSubvols, sh, sc \in 1..MaxSubvolSize :
                 /\ nh * sh + nc * sc <= MaxTierBricks
                 /\ hot_tier \in Tiers(HotTierTypes, 1, nh, sh)
                 /\ cold_tier \in Tiers(VolumeTypes, nh + 1, nc, sc)
            /\ volume_type = "Tier"
            /\ replica_count = 1
            /\ redundancy_count = 0
            /\ quorum_info = NoQuorum
            /\ subvols_list = <<>>
            /\ subvols_at_call = <<>>
       ELSE /\ VolumeInputs
            /\ hot_tier = NoTier
            /\ cold_tier = NoTier

\* The two ifs of select_hot_tier_bricks_to_bring_offline on the hot tier
\* type (lines 669-688): there is no disperse branch.
hot_tier_branch(type) ==
    IF type = "Distribute" THEN "empty"
    ELSE IF type \in ReplicatedTypes THEN "replicated"
    ELSE "empty"

\* The if/elif chain of select_cold_tier_bricks_to_bring_offline on the cold
\* tier type (lines 720-752).
cold_tier_branch(type) ==
    IF type = "Distribute" THEN "empty"
    ELSE IF type \in ReplicatedTypes THEN "replicated"
    ELSE IF type \in DisperseTypes THEN "disperse"
    ELSE "empty"

\* `subvols_dict['cold_tier_subvols']` (line 718)
cold_tier_subvols_from_hot(hot, cold) == hot.subvols

cold_tier_subvols(hot, cold) == cold.subvols

\* Where a selector call starts, by the branch taken.
BranchEntry(branch) ==
    CASE branch = "replicated" -> "replicated"
      [] branch = "disperse" -> "disperse_loop"
      [] OTHER -> "returned"

\* select_bricks_to_bring_offline, lines 514-533, up to the call of
\* select_tier_volume_bricks_to_bring_offline or
\* select_volume_bricks_to_bring_offline.
SelectBricks ==
    /\ pc = "select_bricks"
    /\ \E info \in {"None", "info"} :
          /\ volinfo' = info
          /\ IF info = "None"
             THEN /\ pc' = "done"
                  /\ UNCHANGED bricks_to_bring_offline_dict
             ELSE IF is_tiered
             THEN /\ pc' = "tier_volume"
                  /\ bricks_to_bring_offline_dict' =
                        [bricks_to_bring_offline_dict
                            EXCEPT !.is_tier = TRUE]
             ELSE /\ pc' = "select_volume"
                  /\ UNCHANGED bricks_to_bring_offline_dict
    /\ UNCHANGED <<selectorVars_but_pc, tierResults, is_tiered, hot_tier,
                   cold_tier, partition, pollerVars, moreVars>>

\* select_tier_volume_bricks_to_bring_offline, lines 620-634, up to the call
\* of select_hot_tier_bricks_to_bring_offline; when it returns early its
\* two-key dict replaces the caller's dict (line 529).
SelectTierVolume ==
    /\ pc = "tier_volume"
    /\ \E info \in {"None", "info"} :
          /\ volinfo' = info
          /\ IF info = "None" \/ ~is_tiered
             THEN /\ pc' = "done"
                  /\ bricks_to_bring_offline_dict' =
                        [hot_tier_bricks |-> <<>>, cold_tier_bricks |-> <<>>]
             ELSE /\ pc' = "hot_tier"
                  /\ UNCHANGED bricks_to_bring_offline_dict
    /\ UNCHANGED <<selectorVars_but_pc, tierResults, is_tiered, hot_tier,
                   cold_tier, partition, pollerVars, moreVars>>

\* select_hot_tier_bricks_to_bring_offline, lines 655-688, up to the call of
\* the replicated selector with the hot tier's subvols, replica count and
\* quorum info.
SelectHotTier ==
    /\ pc = "hot_tier"
    /\ partition' = "hot_tier"
    /\ volume_type' = hot_tier.type
    /\ replica_count' = hot_tier.replica_count
    /\ redundancy_count' = hot_tier.redundancy_count
    /\ quorum_info' = hot_tier.quorum_info
    /\ subvols_list' = hot_tier.subvols
    /\ subvols_at_call' = hot_tier.subvols
    /\ pc' = IF ~is_tiered THEN "returned"
             ELSE BranchEntry(hot_tier_branch(hot_tier.type))
    /\ UNCHANGED <<offline_bricks_limit, idx, random_counts,
                   list_of_bricks_to_bring_offline,
                   volume_bricks_to_bring_offline, exception>>
    /\ UNCHANGED <<tierResults, is_tiered, hot_tier, cold_tier, volinfo,
                   bricks_to_bring_offline_dict, pollerVars, moreVars>>

\* select_hot_tier_bricks_to_bring_offline has returned:
\* select_cold_tier_bricks_to_bring_offline, lines 706-752, up to the call of
\* a selector with the cold tier's subvols, counts and quorum info.
SelectColdTier ==
    /\ pc = "returned"
    /\ partition = "hot_tier"
    /\ partition' = "cold_tier"
    /\ volume_type' = cold_tier.type
    /\ replica_count' = cold_tier.replica_count
    /\ redundancy_count' = cold_tier.redundancy_count
    /\ quorum_info' = cold_tier.quorum_info
    /\ subvols_list' = cold_tier_subvols(hot_tier, cold_tier)
    /\ subvols_at_call' = cold_tier_subvols(hot_tier, cold_tier)
    /\ offline_bricks_limit' = <<>>
    /\ idx' = 1
    /\ random_counts' = <<>>
    /\ list_of_bricks_to_bring_offline' = <<>>
    /\ pc' = IF ~is_tiered THEN "returned"
             ELSE BranchEntry(cold_tier_branch(cold_tier.type))
    /\ UNCHANGED <<volume_bricks_to_bring_offline, exception>>
    /\ UNCHANGED <<tierResults, is_tiered, hot_tier, cold_tier, volinfo,
                   bricks_to_bring_offline_dict, pollerVars, moreVars>>

\* select_cold_tier_bricks_to_bring_offline has returned:
\* select_tier_volume_bricks_to_bring_offline fills and returns its two-key
\* dict (lines 637-639), which replaces the dict of
\* select_bricks_to_bring_offline (lines 529-530, 536).
TierVolumeReturn ==
    /\ pc = "returned"
    /\ partition = "cold_tier"
    /\ pc' = "done"
    /\ bricks_to_bring_offline_dict' =
          [hot_tier_bricks |-> hot_tier_bricks_to_bring_offline,
           cold_tier_bricks |-> cold_tier_bricks_to_bring_offline]
    /\ UNCHANGED <<selectorVars_but_pc, tierResults, is_tiered, hot_tier,
                   cold_tier, partition, volinfo, pollerVars, moreVars>>

\* select_volume_bricks_to_bring_offline has returned:
\* select_bricks_to_bring_offline stores the list and returns (533-536).
SelectBricksReturn ==
    /\ pc = "returned"
    /\ partition = "volume"
    /\ pc' = "done"
    /\ bricks_to_bring_offline_dict' =
          [bricks_to_bring_offline_dict
              EXCEPT !.volume_bricks = volume_bricks_to_bring_offline]
    /\ UNCHANGED <<selectorVars_but_pc, tierResults, is_tiered, hot_tier,
                   cold_tier, partition, volinfo, pollerVars, moreVars>>

NextSelect ==
    \/ SelectBricks
    \/ SelectTierVolume
    \/ SelectHotTier
    \/ SelectColdTier
    \/ TierVolumeReturn
    \/ SelectBricksReturn
    \/ SelectVolumeBricks
    \/ ReplicatedQuorumLimit
    \/ ReplicatedSelectFromSubvol
    \/ DisperseSelectFromSubvol
    \/ SelectorReturn

SpecSelect == InitSelect /\ [][NextSelect]_vars

\* ------------------------- are_bricks_online, are_bricks_offline (341-409)

\* The bricks of a volume whose status is polled.
PollBricks == {Brick(1, k) : k \in 1..MaxPollBricks}

\* What get_volume_status returns: None on failure, else the status of every
\* brick, 1 for online and 0 for offline.
VolumeStatuses == {None} \cup {Some(f) : f \in [PollBricks -> {0, 1}]}

\* The lists of bricks handed to are_bricks_online and are_bricks_offline.
BricksLists ==
    UNION {[1..n -> PollBricks] : n \in 0..MaxPollBricks}

\* `if not volume_status:` (lines 356, 391)
fetch_failed(snapshot) == snapshot.isNone

\* `if status != 1:` (line 398)
not_online_inverted(brick_status) == brick_status # 0

not_online(brick_status) == brick_status # 1

\* `if status != 0:` (line 363)
not_offline(brick_status) == brick_status # 0

\* are_bricks_online (lines 388-409): the result is "None", "True" or
\* "False".
are_bricks_online(snapshot, bricks) ==
    IF fetch_failed(snapshot) THEN "None"
    ELSE LET offline_bricks_list ==
                 SelectSeq(bricks, LAMBDA b : not_online(snapshot.val[b]))
             rc == offline_bricks_list = <<>>
         IN  IF ~rc THEN "False" ELSE "True"

\* are_bricks_offline (lines 353-373)
are_bricks_offline(snapshot, bricks) ==
    IF fetch_failed(snapshot) THEN "None"
    ELSE LET online_bricks_list ==
                 SelectSeq(bricks, LAMBDA b : not_offline(snapshot.val[b]))
             rc == online_bricks_list = <<>>
         IN  IF ~rc THEN "False" ELSE "True"

\* No selector call runs.
SelectorIdle ==
    /\ volume_type = "Distribute"
    /\ replica_count = 1
    /\ redundancy_count = 0
    /\ quorum_info = NoQuorum
    /\ subvols_list = <<>>
    /\ subvols_at_call = <<>>
    /\ pc = "idle"
    /\ SelectorLocalsInit

\* One status snapshot and one list of bricks, before the two calls.
InitStatus ==
    /\ MoreIdle
    /\ SelectorIdle
    /\ SelectIdle
    /\ all_bricks = None
    /\ timeout = 0
    /\ counter = 0
    /\ flag = 0
    /\ observed = <<>>
    /\ wait_result = "unset"
    /\ wpc = "status"
    /\ volume_status \in VolumeStatuses
    /\ bricks_list \in BricksLists
    /\ status = "unset"
    /\ offline_status = "unset"

\* A call of are_bricks_online.
AreBricksOnline ==
    /\ wpc = "status"
    /\ status = "unset"
    /\ status' = are_bricks_online(volume_status, bricks_list)
    /\ UNCHANGED <<all_bricks, bricks_list, volume_status, timeout, counter,
                   flag, observed, offline_status, wpc, wait_result>>
    /\ UNCHANGED <<selectorVars, tierResults, selectVars, moreVars>>

\* A call of are_bricks_offline.
AreBricksOffline ==
    /\ wpc = "status"
    /\ offline_status = "unset"
    /\ offline_status' = are_bricks_offline(volume_status, bricks_list)
    /\ UNCHANGED <<all_bricks, bricks_list, volume_status, timeout, counter,
                   flag, observed, status, wpc, wait_result>>
    /\ UNCHANGED <<selectorVars, tierResults, selectVars, moreVars>>

NextStatus ==
    \/ AreBricksOnline
    \/ AreBricksOffline

SpecStatus == InitStatus /\ [][NextStatus]_vars

\* ----------------------------------- wait_for_bricks_to_be_online (868-904)

\* What get_all_bricks returns: None on failure, else the list of the bricks
\* of the volume, which may be empty.
AllBricksOutcomes ==
    {None} \cup
    {Some([k \in 1..n |-> Brick(1, k)]) : n \in 0..MaxPollBricks}

\* `if not all_bricks:` (line 883)
no_bricks(bricks) == bricks.isNone \/ bricks.val = <<>>

\* `while counter < timeout:` (line 888)
loop_continues_at_timeout(c, t) == c <= t

loop_continues(c, t) == c < t

\* `if status:` (line 891) on the result of are_bricks_online
truthy_or_none(result) == result \in {"True", "None"}

truthy(result) == result = "True"

\* A call of wait_for_bricks_to_be_online; volume_status is what the cluster
\* would report now.
InitPoller ==
    /\ MoreIdle
    /\ SelectorIdle
    /\ SelectIdle
    /\ wpc = "start"
    /\ all_bricks \in AllBricksOutcomes
    /\ timeout \in (-1)..MaxTimeout
    /\ volume_status \in VolumeStatuses
    /\ bricks_list = <<>>
    /\ counter = 0
    /\ flag = 0
    /\ status = "unset"
    /\ observed = <<>>
    /\ offline_status = "unset"
    /\ wait_result = "unset"

\* Lines 882-887: get_all_bricks, the early return and the two counters.
WaitEnter ==
    /\ wpc = "start"
    /\ IF no_bricks(all_bricks)
       THEN /\ wait_result' = "False"
            /\ wpc' = "done"
       ELSE /\ wpc' = "loop"
            /\ UNCHANGED wait_result
    /\ counter' = 0
    /\ flag' = 0
    /\ UNCHANGED <<all_bricks, bricks_list, volume_status, timeout, status,
                   observed, offline_status>>
    /\ UNCHANGED <<selectorVars, tierResults, selectVars, moreVars>>

\* Lines 888-889: the loop test holds and are_bricks_online is called on all
\* the bricks.
Poll ==
    /\ wpc = "loop"
    /\ loop_continues(counter, timeout)
    /\ bricks_list' = all_bricks.val
    /\ status' = are_bricks_online(volume_status, all_bricks.val)
    /\ observed' = Append(observed, status')
    /\ wpc' = "polled"
    /\ UNCHANGED <<all_bricks, volume_status, timeout, counter, flag,
                   offline_status, wait_result>>
    /\ UNCHANGED <<selectorVars, tierResults, selectVars, moreVars>>

\* Lines 891-893 and 897-904: the status is truthy, the loop is left with
\* flag 1 and True is returned.
Converged ==
    /\ wpc = "polled"
    /\ truthy(status)
    /\ flag' = 1
    /\ wait_result' = "True"
    /\ wpc' = "done"
    /\ UNCHANGED <<all_bricks, bricks_list, volume_status, timeout, counter,
                   status, observed, offline_status>>
    /\ UNCHANGED <<selectorVars, tierResults, selectVars, moreVars>>

\* Lines 894-896: the status is falsy; during the sleep the cluster may come
\* to report anything.
Sleep ==
    /\ wpc = "polled"
    /\ ~truthy(status)
    /\ counter' = counter + PollInterval
    /\ volume_status' \in VolumeStatuses
    /\ wpc' = "loop"
    /\ UNCHANGED <<all_bricks, bricks_list, timeout, flag, status, observed,
                   offline_status, wait_result>>
    /\ UNCHANGED <<selectorVars, tierResults, selectVars, moreVars>>

\* Lines 888 and 898-901: the loop test fails with flag 0 and False is
\* returned.
TimedOut ==
    /\ wpc = "loop"
    /\ ~loop_continues(counter, timeout)
    /\ wait_result' = IF flag = 0 THEN "False" ELSE "True"
    /\ wpc' = "done"
    /\ UNCHANGED <<all_bricks, bricks_list, volume_status, timeout, counter,
                   flag, status, observed, offline_status>>
    /\ UNCHANGED <<selectorVars, tierResults, selectVars, moreVars>>

NextPoller ==
    \/ WaitEnter
    \/ Poll
    \/ Converged
    \/ Sleep
    \/ TimedOut

SpecPoller == InitPoller /\ [][NextPoller]_vars

\* The call runs on its caller's thread and every sleep ends: a step that can
\* be taken is taken.
SpecPollerFair == SpecPoller /\ WF_vars(NextPoller)

\* ------------------ get_offline_bricks_list, get_online_bricks_list (412-469)

\* What get_volume_status returns when an entry may be missing for a brick:
\* None, or the status of some of the bricks.
PartialVolumeStatuses ==
    {None} \cup
    {Some(f) : f \in UNION {[S -> {0, 1}] : S \in SUBSET PollBricks}}

\* `if status != 1:` (line 434)
counts_as_offline_when_zero_or_one(brick_status) == brick_status \in {0, 1}

counts_as_offline(brick_status) == brick_status # 1

\* `if status == 1:` (line 466)
counts_as_online(brick_status) == brick_status = 1

\* get_offline_bricks_list (lines 422-437): None when the status cannot be
\* fetched; iterating a None bricks_list raises TypeError and a brick without
\* an entry raises KeyError.
get_offline_bricks_list(snapshot, bricks) ==
    IF fetch_failed(snapshot) THEN [kind |-> "None", val |-> <<>>]
    ELSE IF bricks.isNone THEN [kind |-> "TypeError", val |-> <<>>]
    ELSE IF \E i \in DOMAIN bricks.val :
                bricks.val[i] \notin DOMAIN snapshot.val
    THEN [kind |-> "KeyError", val |-> <<>>]
    ELSE [kind |-> "list",
          val |-> SelectSeq(bricks.val,
                            LAMBDA b : counts_as_offline(snapshot.val[b]))]

\* get_online_bricks_list (lines 450-469): a brick without an entry is
\* skipped (lines 460-464).
get_online_bricks_list(snapshot, bricks) ==
    IF fetch_failed(snapshot) THEN [kind |-> "None", val |-> <<>>]
    ELSE IF bricks.isNone THEN [kind |-> "TypeError", val |-> <<>>]
    ELSE [kind |-> "list",
          val |-> SelectSeq(bricks.val,
                            LAMBDA b : /\ b \in DOMAIN snapshot.val
                                       /\ counts_as_online(snapshot.val[b]))]

\* One status snapshot and one volume, before the two calls.
InitLists ==
    /\ SelectorIdle
    /\ SelectIdle
    /\ MoreIdle
    /\ all_bricks \in AllBricksOutcomes
    /\ volume_status \in PartialVolumeStatuses
    /\ bricks_list = <<>>
    /\ timeout = 0
    /\ counter = 0
    /\ flag = 0
    /\ status = "unset"
    /\ observed = <<>>
    /\ offline_status = "unset"
    /\ wpc = "lists"
    /\ wait_result = "unset"

\* A call of get_online_bricks_list.
GetOnlineBricksList ==
    /\ wpc = "lists"
    /\ online_list_result.kind = "unset"
    /\ online_list_result' = get_online_bricks_list(volume_status, all_bricks)
    /\ UNCHANGED <<selectorVars, tierResults, selectVars, pollerVars,
                   offline_list_result, detachVars, actuatorVars>>

\* A call of get_offline_bricks_list.
GetOfflineBricksList ==
    /\ wpc = "lists"
    /\ offline_list_result.kind = "unset"
    /\ offline_list_result' =
          get_offline_bricks_list(volume_status, all_bricks)
    /\ UNCHANGED <<selectorVars, tierResults, selectVars, pollerVars,
                   online_list_result, detachVars, actuatorVars>>

NextLists ==
    \/ GetOnlineBricksList
    \/ GetOfflineBricksList

SpecLists == InitLists /\ [][NextLists]_vars

\* ------------------- wait_for_detach_tier_to_complete (tiering_ops 529-565)

\* What a poll of get_detach_tier_status gives: "None" on failure, else the
\* aggregate statusStr.
DetachStatuses == {"None", "in progress", "failed", "completed"}

\* `while (count < timeout):` (line 548)
detach_loop_continues(c, t) == c < t

\* `if status_info is None:` (line 550)
detach_fetch_failed_never(info) == FALSE

detach_fetch_failed(info) == info = "None"

\* `if status == 'completed':` (line 554)
detach_completed(statusStr) == statusStr = "completed"

\* A call of wait_for_detach_tier_to_complete after lines 546-547.
InitDetach ==
    /\ SelectorIdle
    /\ SelectIdle
    /\ ListsIdle
    /\ ActuatorIdle
    /\ all_bricks = None
    /\ bricks_list = <<>>
    /\ volume_status = None
    /\ counter = 0
    /\ status = "unset"
    /\ observed = <<>>
    /\ offline_status = "unset"
    /\ wpc = "idle"
    /\ wait_result = "unset"
    /\ timeout \in (-1)..MaxTimeout
    /\ flag = 0
    /\ count = 0
    /\ status_info = "unset"
    /\ detach_observed = <<>>
    /\ dpc = "loop"
    /\ detach_result = "unset"

\* What no step of the detach wait changes.
detachFrame ==
    <<selectorVars, tierResults, selectVars, listVars, actuatorVars,
      all_bricks, bricks_list, volume_status, timeout, counter, status,
      observed, offline_status, wpc, wait_result>>

\* Lines 548-549: the loop test holds and the detach status is fetched.
DetachPoll ==
    /\ dpc = "loop"
    /\ detach_loop_continues(count, timeout)
    /\ \E info \in DetachStatuses :
          /\ status_info' = info
          /\ detach_observed' = Append(detach_observed, info)
    /\ dpc' = "polled"
    /\ UNCHANGED <<count, flag, detach_result, detachFrame>>

\* Lines 550-551: the fetch failed and False is returned at once.
DetachFetchFailed ==
    /\ dpc = "polled"
    /\ detach_fetch_failed(status_info)
    /\ detach_result' = "False"
    /\ dpc' = "done"
    /\ UNCHANGED <<count, flag, status_info, detach_observed, detachFrame>>

\* Lines 553-556 and 560-565: the status is 'completed', the loop is left
\* with flag 1 and True is returned.
DetachCompleted ==
    /\ dpc = "polled"
    /\ ~detach_fetch_failed(status_info)
    /\ detach_completed(status_info)
    /\ flag' = 1
    /\ detach_result' = "True"
    /\ dpc' = "done"
    /\ UNCHANGED <<count, status_info, detach_observed, detachFrame>>

\* Lines 558-559: any other status: sleep and count the sleep.
DetachSleep ==
    /\ dpc = "polled"
    /\ ~detach_fetch_failed(status_info)
    /\ ~detach_completed(status_info)
    /\ count' = count + DetachPollInterval
    /\ dpc' = "loop"
    /\ UNCHANGED <<flag, status_info, detach_observed, detach_result,
                   detachFrame>>

\* Lines 548 and 560-562: the loop test fails with flag 0 and False is
\* returned.
DetachTimedOut ==
    /\ dpc = "loop"
    /\ ~detach_loop_continues(count, timeout)
    /\ detach_result' = IF flag = 0 THEN "False" ELSE "True"
    /\ dpc' = "done"
    /\ UNCHANGED <<count, flag, status_info, detach_observed, detachFrame>>

NextDetach ==
    \/ DetachPoll
    \/ DetachFetchFailed
    \/ DetachCompleted
    \/ DetachSleep
    \/ DetachTimedOut

SpecDetach == InitDetach /\ [][NextDetach]_vars

\* ------------------------------------------ bring_bricks_offline (161-255)

\* bring_bricks_offline_methods after lines 180-183: the default, and a list
\* with a method the function does not know.
OfflineMethodLists == {<<"service_kill">>, <<"service_kill", "node_reboot">>}

\* A bring_bricks_offline call at its entry.
OfflineCall(bricks, methods) ==
    [op |-> "offline", pc |-> "entry", bricks_list |-> bricks,
     methods |-> methods, i |-> 1, rc |-> TRUE, failed |-> <<>>,
     issued |-> <<>>, result |-> "unset"]

\* `if ret != 0:` (lines 206, 235, 294, 304, 317)
command_failed(ret) == ret # 0

\* The call record after the kill command of its brick i has returned ret
\* (lines 205-209 and 234-238): a failure is recorded and the loop goes on.
after_kill(call, ret) ==
    [call EXCEPT
        !.issued = Append(@, [cmd |-> "kill",
                              brick |-> call.bricks_list[call.i],
                              ret |-> ret]),
        !.failed = IF command_failed(ret)
                   THEN Append(@, call.bricks_list[call.i]) ELSE @,
        !.rc = IF command_failed(ret) THEN FALSE ELSE @,
        !.i = @ + 1]

\* What no step of bring_bricks_offline or bring_bricks_online changes.
actuatorFrame ==
    <<selectorVars, tierResults, selectVars, pollerVars, listVars,
      detachVars, brick_mux, caller>>

\* Lines 180-192: the arguments are normalised and is_brick_mux_enabled is
\* asked about node_list[0], which raises IndexError for an empty list.
BringBricksOfflineEnter(c) ==
    /\ calls[c].op = "offline"
    /\ calls[c].pc = "entry"
    /\ calls' = [calls EXCEPT ![c] =
          IF calls[c].bricks_list = <<>>
          THEN [@ EXCEPT !.pc = "raised", !.result = "IndexError"]
          ELSE [@ EXCEPT !.pc = IF brick_mux THEN "mux_loop"
                                ELSE "kill_loop"]]
    /\ UNCHANGED <<down, actuatorFrame>>

\* Lines 195-209: with brick multiplexing the brick is detached with
\* gf_attach -d.
MuxKillBrick(c) ==
    /\ calls[c].pc = "mux_loop"
    /\ calls[c].i <= Len(calls[c].bricks_list)
    /\ \E ret \in {0, 1} :
          /\ calls' = [calls EXCEPT ![c] = after_kill(@, ret)]
          /\ down' = IF command_failed(ret) THEN down
                     ELSE down \cup {calls[c].bricks_list[calls[c].i]}
    /\ UNCHANGED actuatorFrame

\* Lines 226-242: a method is chosen at random; 'service_kill' kills the
\* brick process and any other method returns False at once.
ServiceKillBrick(c) ==
    /\ calls[c].pc = "kill_loop"
    /\ calls[c].i <= Len(calls[c].bricks_list)
    /\ \E bring_brick_offline_method \in Range(calls[c].methods) :
          IF bring_brick_offline_method = "service_kill"
          THEN \E ret \in {0, 1} :
                  /\ calls' = [calls EXCEPT ![c] = after_kill(@, ret)]
                  /\ down' = IF command_failed(ret) THEN down
                             ELSE down
                                  \cup {calls[c].bricks_list[calls[c].i]}
          ELSE /\ calls' = [calls EXCEPT ![c] =
                      [@ EXCEPT !.pc = "done", !.result = "False"]]
               /\ UNCHANGED down
    /\ UNCHANGED actuatorFrame

\* Lines 211-217 and 244-250: the loop is over and _rc decides the result.
BringBricksOfflineReturn(c) ==
    /\ calls[c].pc \in {"mux_loop", "kill_loop"}
    /\ calls[c].i > Len(calls[c].bricks_list)
    /\ calls' = [calls EXCEPT ![c] =
          [@ EXCEPT !.pc = "done",
                    !.result = IF calls[c].rc THEN "True" ELSE "False"]]
    /\ UNCHANGED <<down, actuatorFrame>>

\* One bring_bricks_offline call, by caller 1.
InitOffline ==
    /\ SelectorIdle
    /\ SelectIdle
    /\ PollerIdle
    /\ ListsIdle
    /\ DetachIdle
    /\ brick_mux \in BOOLEAN
    /\ down = {}
    /\ caller = 0
    /\ \E bricks \in BricksLists, methods \in OfflineMethodLists :
          calls = [c \in Callers |->
                      IF c = 1 THEN OfflineCall(bricks, methods)
                      ELSE NoCall]

NextOffline ==
    \E c \in Callers :
        \/ BringBricksOfflineEnter(c)
        \/ MuxKillBrick(c)
        \/ ServiceKillBrick(c)
        \/ BringBricksOfflineReturn(c)

SpecOffline == InitOffline /\ [][NextOffline]_vars

\* ------------------------------------------- bring_bricks_online (258-338)

\* bring_bricks_online_methods after lines 281-285: the default, each method
\* alone, and a list with a method the function does not know.
OnlineMethodLists ==
    {<<"glusterd_restart", "volume_start_force">>,
     <<"glusterd_restart">>,
     <<"volume_start_force">>,
     <<"glusterd_restart", "node_reboot">>}

\* A bring_bricks_online call at its loop (after lines 281-291).
OnlineCall(bricks, methods) ==
    [op |-> "online", pc |-> "online_loop", bricks_list |-> bricks,
     methods |-> methods, i |-> 1, rc |-> TRUE, failed |-> <<>>,
     issued |-> <<>>, result |-> "unset"]

\* Where the loop goes after a 'volume_start_force' that succeeded: the
\* `break` of line 325.
after_start_force_continuing(call) == [call EXCEPT !.i = @ + 1]

after_start_force(call) == [call EXCEPT !.pc = "online_sleep"]

\* The call record with one more issued command.
Issued(call, cmd, ret) ==
    [call EXCEPT
        !.issued = Append(@, [cmd |-> cmd,
                              brick |-> call.bricks_list[call.i],
                              ret |-> ret]),
        !.rc = IF command_failed(ret) THEN FALSE ELSE @]

\* One pass of the loop of lines 292-329.
BringBrickOnline(c) ==
    /\ calls[c].pc = "online_loop"
    /\ calls[c].i <= Len(calls[c].bricks_list)
    /\ \E bring_brick_online_method \in Range(calls[c].methods),
          ret \in {0, 1} :
          IF brick_mux
          THEN \* lines 294-303: volume start force, and the loop goes on
               /\ calls' = [calls EXCEPT ![c] =
                     [Issued(@, "volume_start_force", ret)
                         EXCEPT !.i = @ + 1]]
               /\ down' = IF command_failed(ret) THEN down ELSE {}
          ELSE IF bring_brick_online_method = "glusterd_restart"
          THEN \* lines 305-316
               /\ calls' = [calls EXCEPT ![c] =
                     [Issued(@, "glusterd_restart", ret) EXCEPT
                         !.failed =
                             IF command_failed(ret)
                             THEN Append(@, calls[c].bricks_list[calls[c].i])
                             ELSE @,
                         !.i = @ + 1]]
               /\ down' = IF command_failed(ret) THEN down
                          ELSE down \ {calls[c].bricks_list[calls[c].i]}
          ELSE IF bring_brick_online_method = "volume_start_force"
          THEN \* lines 318-329
               /\ calls' = [calls EXCEPT ![c] =
                     IF command_failed(ret)
                     THEN [Issued(@, "volume_start_force", ret)
                              EXCEPT !.i = @ + 1]
                     ELSE after_start_force(
                              Issued(@, "volume_start_force", ret))]
               /\ down' = IF command_failed(ret) THEN down ELSE {}
          ELSE \* lines 330-333: the function returns False at once
               /\ ret = 0
               /\ calls' = [calls EXCEPT ![c] =
                     [@ EXCEPT !.pc = "done", !.result = "False"]]
               /\ UNCHANGED down
    /\ UNCHANGED actuatorFrame

\* Lines 335-337: the loop is over or was left: sleep 30 seconds and return
\* _rc.
BringBricksOnlineReturn(c) ==
    /\ \/ /\ calls[c].pc = "online_loop"
          /\ calls[c].i > Len(calls[c].bricks_list)
       \/ calls[c].pc = "online_sleep"
    /\ calls' = [calls EXCEPT ![c] =
          [@ EXCEPT !.pc = "done",
                    !.result = IF calls[c].rc THEN "True" ELSE "False"]]
    /\ UNCHANGED <<down, actuatorFrame>>

\* One bring_bricks_online call, by caller 1, on bricks that are down.
InitOnline ==
    /\ SelectorIdle
    /\ SelectIdle
    /\ PollerIdle
    /\ ListsIdle
    /\ DetachIdle
    /\ brick_mux \in BOOLEAN
    /\ caller = 0
    /\ \E bricks \in BricksLists, methods \in OnlineMethodLists :
          /\ calls = [c \in Callers |->
                         IF c = 1 THEN OnlineCall(bricks, methods)
                         ELSE NoCall]
          /\ down = Range(bricks)

NextOnline ==
    \E c \in Callers :
        \/ BringBrickOnline(c)
        \/ BringBricksOnlineReturn(c)

SpecOnline == InitOnline /\ [][NextOnline]_vars

\* ------------------------- two callers: select, then bring_bricks_offline

\* A caller that will select bricks of the volume and bring them offline.
Request ==
    [op |-> "request", pc |-> "idle", bricks_list |-> <<>>,
     methods |-> <<>>, i |-> 1, rc |-> TRUE, failed |-> <<>>,
     issued |-> <<>>, result |-> "unset"]

\* One non-tiered replicated volume, no brick of it down, brick multiplexing
\* off (the default of the cluster option) and two callers that have not
\* started.
InitConcurrent ==
    /\ VolumeInputs
    /\ volume_type \in ReplicatedTypes
    /\ quorum_info \in TierQuorumInfos
    /\ Len(subvols_list) >= 1
    /\ Len(subvols_list) * Len(subvols_list[1]) <= MaxSharedBricks
    /\ pc = "idle"
    /\ SelectorLocalsInit
    /\ SelectIdle
    /\ PollerIdle
    /\ ListsIdle
    /\ DetachIdle
    /\ brick_mux = FALSE
    /\ down = {}
    /\ calls = [c \in Callers |-> Request]
    /\ caller = 0

\* Caller c calls select_bricks_to_bring_offline: the selector is at its
\* entry, with its own locals and the subvols as get_subvols reports them.
StartRequest(c) ==
    /\ caller = 0
    /\ calls[c].op = "request"
    /\ calls[c].pc = "idle"
    /\ caller' = c
    /\ calls' = [calls EXCEPT ![c] = [@ EXCEPT !.pc = "selecting"]]
    /\ pc' = "select_bricks"
    /\ subvols_list' = subvols_at_call
    /\ offline_bricks_limit' = <<>>
    /\ idx' = 1
    /\ random_counts' = <<>>
    /\ list_of_bricks_to_bring_offline' = <<>>
    /\ volume_bricks_to_bring_offline' = <<>>
    /\ exception' = ""
    /\ volinfo' = "unset"
    /\ bricks_to_bring_offline_dict' = DefaultBricksToBringOffline
    /\ UNCHANGED <<inputs, tierResults, is_tiered, hot_tier, cold_tier,
                   partition, pollerVars, listVars, detachVars, brick_mux,
                   down>>

\* select_bricks_to_bring_offline has returned to caller c, which calls
\* bring_bricks_offline on the 'volume_bricks' of the dict; an exception of
\* the selection ends the caller.  The locals of the selection are gone.
HandOver(c) ==
    /\ caller = c
    /\ pc \in {"done", "raised"}
    /\ caller' = 0
    /\ calls' = [calls EXCEPT ![c] =
          IF pc = "raised"
          THEN [@ EXCEPT !.pc = "raised", !.result = exception]
          ELSE OfflineCall(bricks_to_bring_offline_dict.volume_bricks,
                           <<"service_kill">>)]
    /\ pc' = "idle"
    /\ subvols_list' = subvols_at_call
    /\ offline_bricks_limit' = <<>>
    /\ idx' = 1
    /\ random_counts' = <<>>
    /\ list_of_bricks_to_bring_offline' = <<>>
    /\ volume_bricks_to_bring_offline' = <<>>
    /\ exception' = ""
    /\ volinfo' = "unset"
    /\ bricks_to_bring_offline_dict' = DefaultBricksToBringOffline
    /\ UNCHANGED <<inputs, tierResults, is_tiered, hot_tier, cold_tier,
                   partition, pollerVars, listVars, detachVars, brick_mux,
                   down>>

NextConcurrent ==
    \/ \E c \in Callers :
          \/ StartRequest(c)
          \/ HandOver(c)
          \/ BringBricksOfflineEnter(c)
          \/ ServiceKillBrick(c)
          \/ BringBricksOfflineReturn(c)
    \/ SelectBricks
    \/ SelectVolumeBricks
    \/ ReplicatedQuorumLimit
    \/ ReplicatedSelectFromSubvol
    \/ SelectorReturn
    \/ SelectBricksReturn

SpecConcurrent == InitConcurrent /\ [][NextConcurrent]_vars

\* ------------------------------------------------------------ claims

Replicated == volume_type \in ReplicatedTypes

Disperse == volume_type \in DisperseTypes

\* The selector has got past its quorum arithmetic (or has ended).
PastQuorumLimit == pc \in {"replicated_loop", "returned", "raised"}

\* Number of entries of list that are bricks of subvol g.
CountIn(list, g) ==
    Cardinality({i \in DOMAIN list : list[i] \in Range(subvols_list[g])})

\* The limit the running selector draws against: <<>> when none is bound.
SelectionLimit ==
    IF Replicated THEN offline_bricks_limit
    ELSE IF Disperse THEN <<redundancy_count>>
    ELSE <<>>

WithinLimit(list) ==
    \A g \in DOMAIN subvols_list :
        CountIn(list, g) > 0 =>
            /\ SelectionLimit # <<>>
            /\ CountIn(list, g) <= SelectionLimit[1]

\* C1: the list the selector builds and returns holds, for each subvolume,
\* at most offline-limit bricks of that subvolume, for every topology,
\* quorum configuration and random outcome.
C1_SelectionWithinOfflineLimit ==
    /\ WithinLimit(list_of_bricks_to_bring_offline)
    /\ pc = "returned" => WithinLimit(volume_bricks_to_bring_offline)

\* A replicated volume returned a selection that takes the full limit of 2
\* from some subvolume.
C1_Witness ==
    /\ pc = "returned"
    /\ Replicated
    /\ offline_bricks_limit = <<2>>
    /\ \E g \in DOMAIN subvols_list :
          CountIn(volume_bricks_to_bring_offline, g) = 2

\* C2: when the offline limit is at least 1, every draw lies in [1, limit]
\* and the returned selection has at least one brick of every subvolume.
C2_AtLeastOnePerSubvol ==
    (SelectionLimit # <<>> /\ SelectionLimit[1] >= 1) =>
        /\ \A i \in DOMAIN random_counts :
              random_counts[i] \in 1..SelectionLimit[1]
        /\ (pc = "returned" /\ volume_type # "Distribute") =>
              \A g \in DOMAIN subvols_list :
                  CountIn(volume_bricks_to_bring_offline, g) >= 1

\* Two subvolumes, a positive limit, and a returned selection with bricks of
\* both.
C2_Witness ==
    /\ pc = "returned"
    /\ Len(subvols_list) = 2
    /\ SelectionLimit # <<>>
    /\ SelectionLimit[1] >= 1
    /\ Len(random_counts) = 2
    /\ \A g \in DOMAIN subvols_list :
          CountIn(volume_bricks_to_bring_offline, g) >= 1

FixedWithCount ==
    /\ Replicated
    /\ quorum_info.has_keys
    /\ quorum_info.is_quorum_applicable
    /\ quorum_info.quorum_type = Some(S_fixed)
    /\ ~quorum_info.quorum_count.isNone

\* C3: replicated volume, applicable quorum of type 'fixed' with a count
\* <= replica count (replica count >= 2): the limit the selector binds is
\* replica count - quorum count, and no draw exceeds it.
C3_FixedLimit ==
    (/\ FixedWithCount
     /\ replica_count >= 2
     /\ quorum_info.quorum_count.val <= replica_count
     /\ PastQuorumLimit) =>
        /\ offline_bricks_limit =
              <<replica_count - quorum_info.quorum_count.val>>
        /\ \A i \in DOMAIN random_counts :
              random_counts[i] <= replica_count - quorum_info.quorum_count.val

\* Replica 3 with fixed quorum 1: a draw reached the limit 3 - 1.
C3_Witness ==
    /\ FixedWithCount
    /\ replica_count = 3
    /\ quorum_info.quorum_count.val = 1
    /\ offline_bricks_limit = <<2>>
    /\ \E i \in DOMAIN random_counts : random_counts[i] = 2

AutoQuorum ==
    /\ Replicated
    /\ quorum_info.has_keys
    /\ quorum_info.is_quorum_applicable
    /\ quorum_info.quorum_type = Some(S_auto)

\* C4: replicated volume, applicable quorum of type 'auto': the limit the
\* selector binds is ceil(replica count / 2), for odd and even replica
\* counts.
C4_AutoLimitIsCeilHalf ==
    (AutoQuorum /\ PastQuorumLimit) =>
        offline_bricks_limit = <<(replica_count + 1) \div 2>>

NoneQuorumType ==
    /\ Replicated
    /\ quorum_info.has_keys
    /\ quorum_info.is_quorum_applicable
    /\ quorum_info.quorum_type = None

\* C5: replicated volume, applicable quorum whose quorum_type is None: the
\* selector completes normally and binds the limit replica count - 1.
C5_NoneLimit ==
    (NoneQuorumType /\ PastQuorumLimit) =>
        /\ pc # "raised"
        /\ offline_bricks_limit = <<replica_count - 1>>

\* C6: disperse volume: every draw lies in [1, redundancy count] and the
\* returned selection has between 1 and redundancy count bricks of every
\* subvolume.
C6_DisperseLimit ==
    Disperse =>
        /\ \A i \in DOMAIN random_counts :
              random_counts[i] \in 1..redundancy_count
        /\ pc = "returned" =>
              \A g \in DOMAIN subvols_list :
                  /\ CountIn(volume_bricks_to_bring_offline, g) >= 1
                  /\ CountIn(volume_bricks_to_bring_offline, g)
                        <= redundancy_count

\* A disperse volume with redundancy 2 returned 2 bricks of one subvolume
\* and 1 brick of another.
C6_Witness ==
    /\ Disperse
    /\ pc = "returned"
    /\ redundancy_count = 2
    /\ \E g, h \in DOMAIN subvols_list :
          /\ CountIn(volume_bricks_to_bring_offline, g) = 2
          /\ CountIn(volume_bricks_to_bring_offline, h) = 1

\* The limit of the running selector is 0.
ZeroLimit ==
    \/ Replicated /\ offline_bricks_limit = <<0>>
    \/ Disperse /\ redundancy_count = 0 /\ pc # "select_volume"

\* C7: with an offline limit of 0 every subvolume is skipped: the selector
\* does not fail, and returns with no brick selected.
C7_ZeroLimitSkips ==
    ZeroLimit =>
        /\ pc # "raised"
        /\ list_of_bricks_to_bring_offline = <<>>
        /\ pc = "returned" => volume_bricks_to_bring_offline = <<>>

FixedWithoutCount ==
    /\ Replicated
    /\ quorum_info.has_keys
    /\ quorum_info.is_quorum_applicable
    /\ quorum_info.quorum_type = Some(S_fixed)
    /\ quorum_info.quorum_count.isNone

\* C8: replicated volume, applicable quorum of type 'fixed' without a
\* count: the selector gives up before its loop and returns an empty list;
\* no limit is bound, no subvolume is drawn from, nothing is raised.
C8_FixedWithoutCountReturnsEmpty ==
    (FixedWithoutCount /\ pc \notin {"select_volume", "replicated"}) =>
        /\ pc = "returned"
        /\ offline_bricks_limit = <<>>
        /\ random_counts = <<>>
        /\ list_of_bricks_to_bring_offline = <<>>
        /\ volume_bricks_to_bring_offline = <<>>

\* Fixed quorum without a count on a volume that has bricks: the call has
\* returned.
C8_Witness ==
    /\ FixedWithoutCount
    /\ Len(subvols_list) >= 1
    /\ pc = "returned"

\* The quorum type is a string other than 'fixed' and 'auto' (None is the
\* NONE kind of C5).
OtherQuorumType ==
    /\ Replicated
    /\ quorum_info.has_keys
    /\ quorum_info.is_quorum_applicable
    /\ ~quorum_info.quorum_type.isNone
    /\ quorum_info.quorum_type.val \notin {S_fixed, S_auto}

\* C9: replicated volume, applicable quorum, a quorum type other than
\* FIXED, AUTO and NONE: the selector returns an empty selection and binds
\* no limit.
C9_OtherTypeRejected ==
    (OtherQuorumType /\ PastQuorumLimit) =>
        /\ pc = "returned"
        /\ offline_bricks_limit = <<>>
        /\ volume_bricks_to_bring_offline = <<>>

\* C10 as stated: quorum not applicable gives an empty selection, for
\* replicated and disperse volumes alike.
C10_NotApplicableEmptyAnyKind ==
    (~quorum_info.is_quorum_applicable /\ pc = "returned") =>
        volume_bricks_to_bring_offline = <<>>

\* C10 amended: a replicated volume whose quorum is not applicable gets an
\* empty selection, whatever its replica count, quorum type, quorum count
\* and subvolumes: the call returns, draws nothing and binds no limit.
C10_ReplicatedNotApplicableEmpty ==
    (/\ Replicated
     /\ ~quorum_info.is_quorum_applicable
     /\ pc \notin {"select_volume", "replicated"}) =>
        /\ pc = "returned"
        /\ offline_bricks_limit = <<>>
        /\ random_counts = <<>>
        /\ volume_bricks_to_bring_offline = <<>>

\* Replica 3 with bricks and a usable 'fixed' quorum of 1 that is marked not
\* applicable: the call has returned.
C10_Witness ==
    /\ Replicated
    /\ quorum_info.has_keys
    /\ ~quorum_info.is_quorum_applicable
    /\ quorum_info.quorum_type = Some(S_fixed)
    /\ quorum_info.quorum_count = Some(1)
    /\ replica_count = 3
    /\ Len(subvols_list) >= 1
    /\ pc = "returned"

\* No brick of subvol g occurs twice in list.
NoDuplicateOf(list, g) ==
    \A i, j \in DOMAIN list :
        (/\ i # j
         /\ list[i] \in Range(subvols_list[g])
         /\ list[j] \in Range(subvols_list[g])) => list[i] # list[j]

\* C12: within one subvolume the bricks are drawn without replacement: no
\* brick of a subvolume occurs twice in what the selector builds and
\* returns.
C12_NoDuplicateWithinSubvol ==
    \A g \in DOMAIN subvols_list :
        /\ NoDuplicateOf(list_of_bricks_to_bring_offline, g)
        /\ NoDuplicateOf(volume_bricks_to_bring_offline, g)

\* A returned selection with two bricks of one subvolume.
C12_Witness ==
    /\ pc = "returned"
    /\ \E g \in DOMAIN subvols_list :
          CountIn(volume_bricks_to_bring_offline, g) >= 2

\* The dict that select_bricks_to_bring_offline has returned.
Returned == pc = "done"

\* C11: a partition of type 'Distribute' (the non-tiered volume, the hot tier
\* or the cold tier) always yields an empty selection, whatever its subvols and
\* quorum info are: no selector runs on it, nothing is raised for it, and its
\* list is empty in the returned dict.
C11_DistributeYieldsEmpty ==
    /\ volume_type = "Distribute" =>
          /\ pc \notin {"replicated", "replicated_loop", "disperse_loop",
                        "raised"}
          /\ list_of_bricks_to_bring_offline = <<>>
    /\ (~is_tiered /\ volume_type = "Distribute") =>
          /\ volume_bricks_to_bring_offline = <<>>
          /\ bricks_to_bring_offline_dict.volume_bricks = <<>>
    /\ (is_tiered /\ hot_tier.type = "Distribute") =>
          /\ hot_tier_bricks_to_bring_offline = <<>>
          /\ bricks_to_bring_offline_dict.hot_tier_bricks = <<>>
    /\ (is_tiered /\ cold_tier.type = "Distribute") =>
          /\ cold_tier_bricks_to_bring_offline = <<>>
          /\ bricks_to_bring_offline_dict.cold_tier_bricks = <<>>

\* A Distribute hot tier whose quorum info is applicable and 'fixed' with a
\* count, next to a cold tier that did get a selection.
C11_Witness ==
    /\ Returned
    /\ is_tiered
    /\ hot_tier.type = "Distribute"
    /\ hot_tier.quorum_info.is_quorum_applicable
    /\ hot_tier.quorum_info.quorum_count # None
    /\ bricks_to_bring_offline_dict.hot_tier_bricks = <<>>
    /\ bricks_to_bring_offline_dict.cold_tier_bricks # <<>>

\* The bricks of a tier.
BricksOf(tier) == UNION {Range(tier.subvols[g]) : g \in DOMAIN tier.subvols}

\* The selector runs with the parameters of the given tier; it shuffles each
\* subvol in place, so the subvols are the tier's up to the order of bricks.
RunsOn(tier) ==
    /\ DOMAIN subvols_list = DOMAIN tier.subvols
    /\ \A g \in DOMAIN subvols_list :
          Range(subvols_list[g]) = Range(tier.subvols[g])
    /\ replica_count = tier.replica_count
    /\ redundancy_count = tier.redundancy_count
    /\ quorum_info = tier.quorum_info

\* C13: for a tiered volume the selection runs per tier, with that tier's own
\* subvols, replica or redundancy count and quorum info, and the two results
\* are kept apart: the hot list holds hot tier bricks only, the cold list cold
\* tier bricks only, and no brick is in both lists.
C13_TierResultsKeptApart ==
    is_tiered =>
        /\ partition = "hot_tier" => RunsOn(hot_tier)
        /\ partition = "cold_tier" => RunsOn(cold_tier)
        /\ Range(hot_tier_bricks_to_bring_offline) \subseteq BricksOf(hot_tier)
        /\ Range(cold_tier_bricks_to_bring_offline)
              \subseteq BricksOf(cold_tier)
        /\ Range(bricks_to_bring_offline_dict.hot_tier_bricks)
              \subseteq BricksOf(hot_tier)
        /\ Range(bricks_to_bring_offline_dict.cold_tier_bricks)
              \subseteq BricksOf(cold_tier)
        /\ Range(bricks_to_bring_offline_dict.hot_tier_bricks)
              \cap Range(bricks_to_bring_offline_dict.cold_tier_bricks) = {}

\* Both tiers got a selection, with differing counts.
C13_Witness ==
    /\ Returned
    /\ is_tiered
    /\ bricks_to_bring_offline_dict.hot_tier_bricks # <<>>
    /\ bricks_to_bring_offline_dict.cold_tier_bricks # <<>>
    /\ hot_tier.quorum_info # cold_tier.quorum_info

\* C14: select_bricks_to_bring_offline never fails: whatever the volume info,
\* the quorum info and the offline limit are, no call ends with an uncaught
\* exception.
C14_NeverRaises == pc # "raised"

\* The keys of the dict built at lines 514-519.
FaultSetKeys == {"is_tier", "hot_tier_bricks", "cold_tier_bricks",
                 "volume_bricks"}

\* C15: every dict returned by select_bricks_to_bring_offline, for a tiered and
\* for a non-tiered volume, has the four keys 'is_tier', 'hot_tier_bricks',
\* 'cold_tier_bricks' and 'volume_bricks', and when the volume info was
\* available 'is_tier' is true exactly for a tiered volume.
C15_FourKeysAlways ==
    Returned =>
        /\ DOMAIN bricks_to_bring_offline_dict = FaultSetKeys
        /\ volinfo = "info" =>
              bricks_to_bring_offline_dict.is_tier = is_tiered

\* The cluster reports every brick of the volume online now.
AllOnlineNow ==
    /\ ~volume_status.isNone
    /\ \A i \in DOMAIN all_bricks.val :
          volume_status.val[all_bricks.val[i]] = 1

\* The wait has returned for a volume that has bricks.
WaitDone == wpc = "done" /\ ~no_bricks(all_bricks)

\* C16: whatever the timeout is, when the cluster reports every brick online
\* as the wait is entered, the wait returns True after exactly one poll and
\* without a sleep.
C16_FastPathForEveryTimeout ==
    (WaitDone /\ counter = 0 /\ AllOnlineNow) =>
        /\ wait_result = "True"
        /\ observed = <<"True">>

\* The smallest integer that is at least a / b, for b > 0.
CeilDiv(a, b) == (a + b - 1) \div b

\* C17: against a cluster that never reports every brick online the wait
\* returns False only when the slept time has reached the timeout, after
\* exactly ceil(timeout / 10) polls, each followed by one sleep of 10 seconds.
C17_TimeoutAfterCeilPolls ==
    (WaitDone /\ wait_result = "False") =>
        /\ counter >= timeout
        /\ Len(observed) = CeilDiv(timeout, PollInterval)
        /\ counter = PollInterval * Len(observed)

\* A timeout that is not a multiple of the interval, with a failed fetch
\* among the polls.
C17_Witness ==
    /\ WaitDone
    /\ wait_result = "False"
    /\ timeout = 2 * PollInterval + 1
    /\ Len(observed) = 3
    /\ observed[2] = "None"

\* C18: a failed status fetch (are_bricks_online returning None) ends the
\* wait at that poll with an outcome other than the False of a timeout: no
\* sleep and no poll follows it.
C18_FetchFailureIsHardFailure ==
    \A i \in DOMAIN observed :
        observed[i] = "None" =>
            /\ i = Len(observed)
            /\ wpc # "loop"
            /\ wpc = "done" => wait_result # "False"

\* The indices of the polls that saw every brick online.
ConvergedPolls == {i \in DOMAIN observed : observed[i] = "True"}

\* C19: the wait returns True exactly when one of its polls saw every brick
\* of the volume online, and False otherwise; the first such poll is the last
\* poll; every other poll is followed by one sleep and nothing else sleeps, so
\* nothing happens after the result is set.
C19_TrueIffConvergedPoll ==
    /\ wpc = "done" =>
          /\ wait_result \in {"True", "False"}
          /\ wait_result = "True" <=> ConvergedPolls # {}
          /\ counter =
                PollInterval * Cardinality(DOMAIN observed \ ConvergedPolls)
          /\ ~ENABLED NextPoller
    /\ \A i \in ConvergedPolls :
          /\ i = Len(observed)
          /\ wpc \in {"polled", "done"}
          /\ AllOnlineNow
    /\ (wpc = "polled" /\ AllOnlineNow) => observed[Len(observed)] = "True"

\* Converged at the third poll, after a failed fetch and a poll that saw a
\* brick offline.
C19_Witness ==
    /\ wpc = "done"
    /\ wait_result = "True"
    /\ observed = <<"None", "False", "True">>
    /\ counter = 2 * PollInterval

\* The status of every listed brick in a fetched snapshot.
ListedStatuses ==
    {volume_status.val[bricks_list[i]] : i \in DOMAIN bricks_list}

\* The result for a snapshot and a wanted brick status: None when the fetch
\* failed, True when no listed brick has another status, else False.
Verdict(wanted) ==
    IF volume_status.isNone THEN "None"
    ELSE IF ListedStatuses \subseteq {wanted} THEN "True"
    ELSE "False"

\* C20: are_bricks_online returns None when the status cannot be fetched,
\* True when every listed brick has status 1 and False when some listed brick
\* has another status; are_bricks_offline does the same with status 0.
C20_OnlineOfflineVerdicts ==
    /\ status # "unset" => status = Verdict(1)
    /\ offline_status # "unset" => offline_status = Verdict(0)

\* A list with an online and an offline brick: both calls return False.
C20_Witness ==
    /\ wpc = "status"
    /\ status = "False"
    /\ offline_status = "False"
    /\ ListedStatuses = {0, 1}

\* Two subvols of three bricks, replica count 3, applicable quorum of type
\* 'fixed' with count 2.
TwoByThreeFixedTwo ==
    /\ FixedWithCount
    /\ replica_count = 3
    /\ quorum_info.quorum_count.val = 2
    /\ Len(subvols_list) = 2
    /\ \A g \in DOMAIN subvols_list : Len(subvols_list[g]) = 3

\* C21: for two subvols of three bricks with replica count 3 and 'fixed'
\* quorum count 2 the limit is 1, nothing is raised, and every returned
\* selection has between 1 and 2 bricks, one of each subvol, all different.
C21_TwoByThreeScenario ==
    (TwoByThreeFixedTwo /\ PastQuorumLimit) =>
        /\ offline_bricks_limit = <<1>>
        /\ pc # "raised"
        /\ pc = "returned" =>
              /\ Len(volume_bricks_to_bring_offline) \in 1..2
              /\ \A g \in DOMAIN subvols_list :
                    CountIn(volume_bricks_to_bring_offline, g) = 1
              /\ \A i, j \in DOMAIN volume_bricks_to_bring_offline :
                    i # j => volume_bricks_to_bring_offline[i]
                                # volume_bricks_to_bring_offline[j]

\* The scenario returned the third brick of the first subvol and the first
\* brick of the second.
C21_Witness ==
    /\ TwoByThreeFixedTwo
    /\ pc = "returned"
    /\ volume_bricks_to_bring_offline = <<Brick(1, 3), Brick(2, 1)>>

\* C22: under 'auto' quorum more than half of the bricks of every subvol of
\* replica-count bricks stay out of the returned selection, for every replica
\* count and every random outcome.
C22_AutoLeavesMajority ==
    (AutoQuorum /\ pc = "returned") =>
        \A g \in DOMAIN subvols_list :
            Len(subvols_list[g]) = replica_count =>
                2 * (replica_count
                        - CountIn(volume_bricks_to_bring_offline, g))
                    > replica_count

\* The subvols are the ones the selector was called with, up to the order of
\* the bricks inside a subvol.
SameSubvolsAsSets(now, before) ==
    /\ Len(now) = Len(before)
    /\ \A g \in DOMAIN now :
          /\ Len(now[g]) = Len(before[g])
          /\ Range(now[g]) = Range(before[g])

\* C27: the selectors leave the subvols they are given unchanged as sets: at
\* every point of the call, and after it has returned, the number of subvols
\* is the same and every subvol holds the same bricks; only the order inside
\* a subvol may differ.
C27_SubvolsUnchangedAsSets == SameSubvolsAsSets(subvols_list, subvols_at_call)

\* A selector has returned a selection and has reordered a subvol.
C27_Witness ==
    /\ pc = "returned"
    /\ volume_bricks_to_bring_offline # <<>>
    /\ subvols_list # subvols_at_call
    /\ Len(subvols_list) = 2

RECURSIVE SumSeq(_)
SumSeq(s) == IF s = <<>> THEN 0 ELSE Head(s) + SumSeq(Tail(s))

\* The list holds bricks of the given subvols only, one entry per drawn
\* brick, and no brick twice.
FlatSelection(list) ==
    /\ \A i \in DOMAIN list :
          \E g \in DOMAIN subvols_at_call :
              list[i] \in Range(subvols_at_call[g])
    /\ Len(list) = SumSeq(random_counts)
    /\ \A i, j \in DOMAIN list : i # j => list[i] # list[j]

\* C28: the flat list a selector builds and returns holds only bricks of the
\* given subvols, its length is the sum of the counts drawn per subvol, and
\* (the subvols being pairwise disjoint) no brick occurs in it twice.
C28_FlatResultFromGivenSubvols ==
    /\ FlatSelection(list_of_bricks_to_bring_offline)
    /\ (pc = "returned" /\ partition = "volume") =>
          volume_bricks_to_bring_offline = list_of_bricks_to_bring_offline

\* Two subvols with different draws, three bricks returned.
C28_Witness ==
    /\ pc = "returned"
    /\ random_counts \in {<<1, 2>>, <<2, 1>>}
    /\ Len(volume_bricks_to_bring_offline) = 3

\* C24: wait_for_bricks_to_be_online terminates for every timeout and every
\* behaviour of the status source: it returns, it never polls more than
\* ceil(timeout / 10) times, and with a timeout <= 0 it never polls.
C24_WaitTerminates ==
    /\ <>(wpc = "done")
    /\ [](Len(observed) <= IF timeout <= 0 THEN 0
                           ELSE CeilDiv(timeout, PollInterval))

\* Returned after two polls, a failed fetch among them, at a timeout of two
\* intervals.
C24_Witness ==
    /\ wpc = "done"
    /\ timeout = 2 * PollInterval
    /\ observed = <<"False", "None">>

\* The snapshot was fetched and has an entry for every brick of the volume.
CompleteSnapshot ==
    /\ ~volume_status.isNone
    /\ ~all_bricks.isNone
    /\ Range(all_bricks.val) \subseteq DOMAIN volume_status.val

\* C29: for one status snapshot with an entry for every brick of the volume,
\* get_online_bricks_list and get_offline_bricks_list both return a list, a
\* brick is in the online list exactly when its status is 1 and in the offline
\* list otherwise, so every brick is in exactly one list and the lists are
\* disjoint.
C29_OnlineOfflinePartition ==
    (/\ CompleteSnapshot
     /\ online_list_result.kind # "unset"
     /\ offline_list_result.kind # "unset") =>
        /\ online_list_result.kind = "list"
        /\ offline_list_result.kind = "list"
        /\ \A b \in Range(all_bricks.val) :
              /\ b \in Range(online_list_result.val)
                    <=> volume_status.val[b] = 1
              /\ b \in Range(offline_list_result.val)
                    <=> b \notin Range(online_list_result.val)
        /\ Range(online_list_result.val) \cup Range(offline_list_result.val)
              = Range(all_bricks.val)
        /\ Range(online_list_result.val) \cap Range(offline_list_result.val)
              = {}
        /\ Len(online_list_result.val) + Len(offline_list_result.val)
              = Len(all_bricks.val)

\* Three bricks, two of them online and one offline.
C29_Witness ==
    /\ CompleteSnapshot
    /\ Len(all_bricks.val) = 3
    /\ Len(online_list_result.val) = 2
    /\ Len(offline_list_result.val) = 1

\* The polls that saw the given detach status.
DetachPollsWith(info) ==
    {i \in DOMAIN detach_observed : detach_observed[i] = info}

\* C30: wait_for_detach_tier_to_complete returns True exactly when one of
\* its polls saw the status 'completed'; a poll whose fetch failed is the
\* last poll, with False returned and no sleep after it; and when neither
\* happens False is returned after ceil(timeout / 10) polls.
C30_DetachWaitOutcomes ==
    /\ dpc = "done" =>
          /\ detach_result \in {"True", "False"}
          /\ detach_result = "True" <=> DetachPollsWith("completed") # {}
    /\ \A i \in DetachPollsWith("completed") : i = Len(detach_observed)
    /\ \A i \in DetachPollsWith("None") :
          /\ i = Len(detach_observed)
          /\ dpc \in {"polled", "done"}
          /\ count = DetachPollInterval * (i - 1)
          /\ dpc = "done" => detach_result = "False"
    /\ (/\ dpc = "done"
        /\ DetachPollsWith("completed") = {}
        /\ DetachPollsWith("None") = {}) =>
          /\ detach_result = "False"
          /\ Len(detach_observed) =
                IF timeout <= 0 THEN 0
                ELSE CeilDiv(timeout, DetachPollInterval)
          /\ count = DetachPollInterval * Len(detach_observed)

\* The fetch failed at the second poll of a wait that had time for three.
C30_Witness ==
    /\ dpc = "done"
    /\ detach_result = "False"
    /\ timeout > 2 * DetachPollInterval
    /\ detach_observed = <<"in progress", "None">>

\* A bring_bricks_offline call that only kills: brick multiplexing is on, or
\* 'service_kill' is the only method.
KillsOnly(call) ==
    /\ call.op = "offline"
    /\ brick_mux \/ Range(call.methods) = {"service_kill"}

\* The bricks a call has issued a command for, in order.
IssuedBricks(call) == [j \in DOMAIN call.issued |-> call.issued[j].brick]

\* C25: a bring_bricks_offline call that only kills returns, it has then
\* attempted the kill on every brick of its list, in order, whatever failed
\* before, and its result is True exactly when every kill succeeded.
C25_OfflineTrueIffEveryKillSucceeded ==
    \A c \in Callers :
        KillsOnly(calls[c]) =>
            /\ calls[c].pc # "raised"
            /\ calls[c].pc = "done" =>
                  /\ IssuedBricks(calls[c]) = calls[c].bricks_list
                  /\ calls[c].result \in {"True", "False"}
                  /\ calls[c].result = "True" <=>
                        \A j \in DOMAIN calls[c].issued :
                            calls[c].issued[j].ret = 0

\* The commands of a call that failed.
FailedCommands(call) ==
    {j \in DOMAIN call.issued : call.issued[j].ret # 0}

\* C26: in bring_bricks_online without brick multiplexing a
\* 'volume_start_force' that succeeded is the last command the call issues,
\* and the call returns True only if every command it issued succeeded: a
\* command that failed earlier makes the result False whatever succeeds later.
C26_StartForceEndsLoop ==
    \A c \in Callers :
        (calls[c].op = "online" /\ ~brick_mux) =>
            /\ \A j \in DOMAIN calls[c].issued :
                  (/\ calls[c].issued[j].cmd = "volume_start_force"
                   /\ calls[c].issued[j].ret = 0) =>
                      /\ j = Len(calls[c].issued)
                      /\ calls[c].pc \in {"online_sleep", "done"}
            /\ calls[c].pc = "done" =>
                  /\ calls[c].result \in {"True", "False"}
                  /\ calls[c].result = "True" =>
                        FailedCommands(calls[c]) = {}
                  /\ FailedCommands(calls[c]) # {} =>
                        calls[c].result = "False"

\* Three bricks: the glusterd restart for the first failed, the volume start
\* force at the second succeeded, and nothing was issued for the third.
C26_Witness ==
    /\ ~brick_mux
    /\ calls[1].op = "online"
    /\ calls[1].pc = "done"
    /\ Len(calls[1].bricks_list) = 3
    /\ Len(calls[1].issued) = 2
    /\ calls[1].issued[1].cmd = "glusterd_restart"
    /\ calls[1].issued[1].ret = 1
    /\ calls[1].issued[2].cmd = "volume_start_force"
    /\ calls[1].issued[2].ret = 0
    /\ calls[1].result = "False"


\* The offline limits get_bricks_to_bring_offline_from_replicated_volume can
\* compute for the shared volume (one per way `/` divides).
SharedLimits ==
    {replicated_offline_limit(replica_count, quorum_info, td).limit :
        td \in {t \in BOOLEAN :
                  replicated_offline_limit(replica_count, quorum_info,
                                           t).kind = "limit"}}

\* The bricks of subvol g of the shared volume that `bricks` holds.
InSubvol(bricks, g) == bricks \cap Range(subvols_at_call[g])

\* The bricks a call has killed: its kill commands that returned 0.
Killed(call) ==
    {call.issued[j].brick :
        j \in {k \in DOMAIN call.issued : call.issued[k].ret = 0}}

\* C23: two callers share one replicated volume; each selects bricks and
\* brings them offline, in any interleaving.  Each request alone respects
\* the offline limit: what it selected holds, in every subvol, at most the
\* limit the selector computed (nothing, when the selector computes none),
\* it kills only bricks it selected, and no brick is down that no request
\* killed.  Nothing bounds the union: the
\* witness is a state where both requests have returned True and one subvol
\* has more bricks down than any limit the selector can compute.
C23_EachRequestAloneWithinLimit ==
    /\ \A c \in Callers :
          calls[c].op = "offline" =>
             /\ IF SharedLimits = {}
                THEN calls[c].bricks_list = <<>>
                ELSE \E limit \in SharedLimits :
                       \A g \in DOMAIN subvols_at_call :
                          Cardinality(InSubvol(Range(calls[c].bricks_list),
                                               g)) <= limit
             /\ Killed(calls[c]) \subseteq Range(calls[c].bricks_list)
    /\ down = UNION {Killed(calls[c]) : c \in Callers}

C23_Witness ==
    /\ \A c \in Callers :
          /\ calls[c].op = "offline"
          /\ calls[c].pc = "done"
          /\ calls[c].result = "True"
    /\ SharedLimits # {}
    /\ \E g \in DOMAIN subvols_at_call :
          \A limit \in SharedLimits :
              Cardinality(InSubvol(down, g)) > limit

============================================================================
